---- MODULE Spec2Model ----
(***************************************************************************)
(* Model of financialAPIdata.py: the five indicator functions (psScore,    *)
(* trainingDecision, relativeStrengthIndex, onBalanceVolume,               *)
(* exponentialMovingAverage) and the driver historicalAnalysisJSON.        *)
(*                                                                         *)
(* Python floats are modelled as exact rationals <<n, d>> in lowest terms  *)
(* with d > 0; a float division by zero raises ZeroDivisionError and an    *)
(* out-of-range list index raises IndexError, as in Python.  A call ends   *)
(* either in Return(v) or in Raise(e).  The Yahoo query, the date          *)
(* arithmetic and json.dumps are outside the model: the driver's result is *)
(* the dictionary it builds, without the Stock/StartDate/EndDate strings.  *)
(***************************************************************************)
EXTENDS Integers, Sequences, FiniteSets, TLC

VARIABLES historicalJSONData, timePeriod, currentValue, percentageGoal,
          JSONStockData, JSONFutureData, RSItimePeriod, EMAtimePeriod,
          addTrainingData, profitPercentage, pc, ret

vars == <<historicalJSONData, timePeriod, currentValue, percentageGoal,
          JSONStockData, JSONFutureData, RSItimePeriod, EMAtimePeriod,
          addTrainingData, profitPercentage, pc, ret>>

inputs == <<historicalJSONData, timePeriod, currentValue, percentageGoal,
            JSONStockData, JSONFutureData, RSItimePeriod, EMAtimePeriod,
            addTrainingData, profitPercentage>>

(***************************************************************************)
(* Bounds of the model.                                                    *)
(***************************************************************************)
MaxLen == 4
MaxPeriod == 3
MaxPrice == 2
MaxVolume == 2
MaxWindow == 2

(***************************************************************************)
(* Program constants.                                                      *)
(***************************************************************************)
HistoricHighInit == 0
HistoricLowInit == 2000000
EMAFixedPeriod == 10

(***************************************************************************)
(* Float arithmetic, as exact rationals.                                   *)
(***************************************************************************)
Abs(n) == IF n < 0 THEN -n ELSE n

RECURSIVE GCD(_, _)
GCD(a, b) == IF b = 0 THEN a ELSE GCD(b, a % b)

Norm(n, d) ==
    LET g == GCD(Abs(n), Abs(d))
        s == IF d < 0 THEN -1 ELSE 1
    IN  <<(s * n) \div g, (s * d) \div g>>

Float(n) == <<n, 1>>
RAdd(a, b) == Norm(a[1] * b[2] + b[1] * a[2], a[2] * b[2])
RSub(a, b) == Norm(a[1] * b[2] - b[1] * a[2], a[2] * b[2])
RMul(a, b) == Norm(a[1] * b[1], a[2] * b[2])
RDiv(a, b) == Norm(a[1] * b[2], a[2] * b[1])
RNeg(a) == <<-a[1], a[2]>>
RLt(a, b) == a[1] * b[2] < b[1] * a[2]
RLe(a, b) == a[1] * b[2] <= b[1] * a[2]
IsZero(a) == a[1] = 0

(***************************************************************************)
(* Outcome of a call.                                                      *)
(***************************************************************************)
Return(v) == [kind |-> "return", value |-> v]
Raise(e) == [kind |-> "raise", exc |-> e]

(***************************************************************************)
(* psScore: scan for high and low from the sentinels 0.0 and 2000000.0,    *)
(* then (2*currentValue - historicHigh - historicLow) /                    *)
(* (historicHigh - historicLow).                                           *)
(***************************************************************************)
RECURSIVE ScanHighLow(_, _, _, _)
ScanHighLow(data, i, historicHigh, historicLow) ==
    IF i > Len(data) THEN <<historicHigh, historicLow>>
    ELSE LET day == data[i]
             lo == IF RLt(Float(day.Low), historicLow)
                   THEN Float(day.Low) ELSE historicLow
             hi == IF RLt(historicHigh, Float(day.High))
                   THEN Float(day.High) ELSE historicHigh
         IN  ScanHighLow(data, i + 1, hi, lo)

psScore(data, cv) ==
    LET hl == ScanHighLow(data, 1, Float(HistoricHighInit), Float(HistoricLowInit))
        historicHigh == hl[1]
        historicLow == hl[2]
        den == RSub(historicHigh, historicLow)
    IN  IF IsZero(den) THEN Raise("ZeroDivisionError")
        ELSE Return(RDiv(RSub(RSub(RMul(Float(2), cv), historicHigh), historicLow),
                         den))

(***************************************************************************)
(* trainingDecision.                                                       *)
(***************************************************************************)
trainingDecision(data, cv, goal) ==
    LET hl == ScanHighLow(data, 1, Float(HistoricHighInit), Float(HistoricLowInit))
        historicHigh == hl[1]
        historicLow == hl[2]
        futureGain == RSub(historicHigh, cv)
        futureLoss == RSub(cv, historicLow)
    IN  IF IsZero(cv) THEN Raise("ZeroDivisionError")
        ELSE IF RLe(futureLoss, futureGain)
             THEN LET r == RDiv(futureGain, cv)
                  IN  Return(<<r, RLt(goal, r)>>)
             ELSE LET r == RNeg(RDiv(futureLoss, cv))
                  IN  Return(<<r, RLt(goal, RNeg(r))>>)

(***************************************************************************)
(* relativeStrengthIndex.  `day` is the 0-based Python index; data[day+1]  *)
(* is historicalJSONData[day].                                             *)
(***************************************************************************)
Change(day) == RSub(Float(day.Open), Float(day.Close))

RECURSIVE RSISeed(_, _, _, _, _)
RSISeed(data, tp, day, averageGain, averageLoss) ==
    IF day < tp
    THEN IF day + 1 > Len(data) THEN Raise("IndexError")
         ELSE LET change == Change(data[day + 1])
              IN  IF RLt(change, Float(0))
                  THEN RSISeed(data, tp, day + 1, averageGain,
                               RSub(averageLoss, change))
                  ELSE RSISeed(data, tp, day + 1, RAdd(averageGain, change),
                               averageLoss)
    ELSE Return(<<averageGain, averageLoss>>)

RSIFirstAverage(data, tp) ==
    LET acc == RSISeed(data, tp, 0, Float(0), Float(0))
    IN  IF acc.kind = "raise" THEN acc
        ELSE IF tp = 0 THEN Raise("ZeroDivisionError")
        ELSE Return(<<RDiv(acc.value[1], Float(tp)), RDiv(acc.value[2], Float(tp))>>)

\* faulty variant of RSISmooth: the side the day does not feed keeps its value
\* instead of decaying
RSISmoothNoDecay(avg, change, tp) ==
    IF RLt(change, Float(0))
    THEN <<avg[1],
           RDiv(RSub(RMul(avg[2], RSub(Float(tp), Float(1))), change), Float(tp))>>
    ELSE <<RDiv(RAdd(RMul(avg[1], RSub(Float(tp), Float(1))), change), Float(tp)),
           avg[2]>>

RSISmooth(avg, change, tp) ==
    LET timePeriodDivisible == Float(tp)
        timePeriodLess == RSub(timePeriodDivisible, Float(1))
        averageGain == avg[1]
        averageLoss == avg[2]
    IN  IF RLt(change, Float(0))
        THEN <<RDiv(RMul(averageGain, timePeriodLess), timePeriodDivisible),
               RDiv(RSub(RMul(averageLoss, timePeriodLess), change),
                    timePeriodDivisible)>>
        ELSE <<RDiv(RAdd(RMul(averageGain, timePeriodLess), change),
                    timePeriodDivisible),
               RDiv(RMul(averageLoss, timePeriodLess), timePeriodDivisible)>>

RECURSIVE RSIRemainder(_, _, _, _)
RSIRemainder(data, tp, day, avg) ==
    IF day < Len(data)
    THEN LET change == Change(data[day + 1])
             next == RSISmooth(avg, change, tp)
         IN  IF RLt(change, Float(0)) /\ IsZero(next[2])
             THEN Raise("ZeroDivisionError")
             ELSE RSIRemainder(data, tp, day + 1, next)
    ELSE Return(avg)

RSIAverages(data, tp) ==
    LET first == RSIFirstAverage(data, tp)
    IN  IF first.kind = "raise" THEN first
        ELSE RSIRemainder(data, tp, tp, first.value)

RSIValue(avg) ==
    RSub(Float(100), RDiv(Float(100), RAdd(Float(1), RDiv(avg[1], avg[2]))))

relativeStrengthIndex(data, tp) ==
    LET a == RSIAverages(data, tp)
    IN  IF a.kind = "raise" THEN a
        ELSE IF IsZero(a.value[2]) THEN Raise("ZeroDivisionError")
        ELSE IF IsZero(RAdd(Float(1), RDiv(a.value[1], a.value[2])))
             THEN Raise("ZeroDivisionError")
        ELSE Return(RSIValue(a.value))

(***************************************************************************)
(* onBalanceVolume: OBV is assigned (not accumulated) on every day whose   *)
(* close differs from the previous close.                                  *)
(***************************************************************************)
RECURSIVE OBVLoop(_, _, _, _)
OBVLoop(data, day, lastClosing, OBV) ==
    IF day < Len(data)
    THEN LET currentClose == Float(data[day + 1].Close)
             currentVolume == data[day + 1].Volume
             obv == IF RLt(currentClose, lastClosing) THEN -currentVolume
                    ELSE IF RLt(lastClosing, currentClose) THEN currentVolume
                    ELSE OBV
         IN  OBVLoop(data, day + 1, currentClose, obv)
    ELSE OBV

onBalanceVolume(data) ==
    IF Len(data) = 0 THEN Raise("IndexError")
    ELSE Return(OBVLoop(data, 1, Float(data[1].Close), 0))

(***************************************************************************)
(* exponentialMovingAverage.                                               *)
(***************************************************************************)
RECURSIVE EMASum(_, _, _, _)
EMASum(data, tp, day, emaStart) ==
    IF day < tp
    THEN IF day + 1 > Len(data) THEN Raise("IndexError")
         ELSE EMASum(data, tp, day + 1,
                     RAdd(emaStart, Float(data[day + 1].Close)))
    ELSE Return(emaStart)

\* faulty variant of EMAPoint: the weighted difference is added to the close,
\* not to the reference
EMAPointOnClose(close, reference, multiplier) ==
    RAdd(RMul(RSub(close, reference), multiplier), close)

EMAPoint(close, reference, multiplier) ==
    RAdd(RMul(RSub(close, reference), multiplier), reference)

RECURSIVE EMAFill(_, _, _, _, _)
EMAFill(data, day, emaReference, EMAdata, multiplier) ==
    IF day < Len(data)
    THEN EMAFill(data, day + 1, emaReference + 1,
                 Append(EMAdata, EMAPoint(Float(data[day + 1].Close),
                                          EMAdata[emaReference + 1], multiplier)),
                 multiplier)
    ELSE EMAdata

exponentialMovingAverage(data, tp) ==
    IF tp + 1 = 0 THEN Raise("ZeroDivisionError")
    ELSE LET multiplier == RDiv(Float(2), RAdd(Float(tp), Float(1)))
             sum == EMASum(data, tp, 0, Float(0))
         IN  IF sum.kind = "raise" THEN sum
             ELSE IF tp = 0 THEN Raise("ZeroDivisionError")
             ELSE Return(EMAFill(data, IF tp < 0 THEN 0 ELSE tp, 0,
                                 <<RDiv(sum.value, Float(tp))>>, multiplier))

(***************************************************************************)
(* historicalAnalysisJSON.  api is what get_historical returned for the    *)
(* past window (most recent day first), future what it returned for the    *)
(* window after the article.  The EMA is computed with the literal 10;     *)
(* EMAp is not used.                                                       *)
(***************************************************************************)
Reversed(s) == [i \in 1..Len(s) |-> s[Len(s) + 1 - i]]

historicalAnalysisJSON(api, future, RSIp, EMAp, addTraining, profit) ==
    LET data == Reversed(api)
    IN  IF Len(data) = 0 THEN Raise("IndexError")
        ELSE
        LET last == Float(data[Len(data)].Close)
            ps == psScore(data, last)
            rsi == relativeStrengthIndex(data, RSIp)
            obv == onBalanceVolume(data)
            ema == exponentialMovingAverage(data, EMAFixedPeriod)
            training == trainingDecision(future, last, profit)
            result == [psScore |-> ps.value, RSI |-> rsi.value,
                       OBV |-> obv.value, EMA |-> ema.value]
        IN  IF ps.kind = "raise" THEN ps
            ELSE IF rsi.kind = "raise" THEN rsi
            ELSE IF obv.kind = "raise" THEN obv
            ELSE IF ema.kind = "raise" THEN ema
            ELSE IF ~addTraining THEN Return(result)
            ELSE IF training.kind = "raise" THEN training
            ELSE Return([psScore |-> ps.value, RSI |-> rsi.value,
                         OBV |-> obv.value, EMA |-> ema.value,
                         TrainingGain |-> training.value[1],
                         TrainingDecision |-> training.value[2]])

(***************************************************************************)
(* Inputs.  A day is one record of the provider's answer; its fields are   *)
(* the numbers float() and int() parse.                                    *)
(***************************************************************************)
Max(a, b) == IF a < b THEN b ELSE a
Min(a, b) == IF a < b THEN a ELSE b
Day(o, h, l, c, v) == [Open |-> o, High |-> h, Low |-> l, Close |-> c, Volume |-> v]
SeqsOf(S, lo, hi) == UNION {[1..n -> S] : n \in lo..hi}

Prices == 1..MaxPrice
\* days for the momentum and trend indicators: open and close vary
SeriesDays == {Day(o, Max(o, c), Min(o, c), c, 1) : o \in Prices, c \in Prices}
\* days for the volume indicator: close and volume vary
VolumeDays == {Day(c, c, c, c, v) : c \in Prices, v \in 1..MaxVolume}
\* days for the range scans: low and high vary, below and above 2000000
RangePrices == Prices \cup {HistoricLowInit + p : p \in Prices}
RangeDays == {Day(l, h, l, h, 1) : l \in RangePrices, h \in RangePrices} \cap
             {d \in [Open : RangePrices, High : RangePrices, Low : RangePrices,
                     Close : RangePrices, Volume : {1}] : d.Low <= d.High}
Thresholds == {<<1, 10>>, <<1, 2>>}
\* days for the driver: a rising and a falling day
AnalysisDays == {Day(1, 2, 1, 2, 1), Day(2, 2, 1, 1, 2)}

NoCall ==
    /\ pc = "ready"
    /\ ret = Raise("none")

InitSeries ==
    /\ historicalJSONData \in SeqsOf(SeriesDays, 1, MaxLen)
    /\ timePeriod \in 1..MaxPeriod
    /\ currentValue = Float(1)
    /\ percentageGoal = <<1, 10>>
    /\ JSONStockData = <<>>
    /\ JSONFutureData = <<>>
    /\ RSItimePeriod = 1
    /\ EMAtimePeriod = 1
    /\ addTrainingData = FALSE
    /\ profitPercentage = <<1, 10>>
    /\ NoCall

InitVolume ==
    /\ historicalJSONData \in SeqsOf(VolumeDays, 1, MaxLen)
    /\ timePeriod = 1
    /\ currentValue = Float(1)
    /\ percentageGoal = <<1, 10>>
    /\ JSONStockData = <<>>
    /\ JSONFutureData = <<>>
    /\ RSItimePeriod = 1
    /\ EMAtimePeriod = 1
    /\ addTrainingData = FALSE
    /\ profitPercentage = <<1, 10>>
    /\ NoCall

InitRange ==
    /\ historicalJSONData \in SeqsOf(RangeDays, 1, MaxWindow)
    /\ timePeriod = 1
    /\ currentValue \in {Float(p) : p \in RangePrices}
    /\ percentageGoal \in Thresholds
    /\ JSONStockData = <<>>
    /\ JSONFutureData = <<>>
    /\ RSItimePeriod = 1
    /\ EMAtimePeriod = 1
    /\ addTrainingData = FALSE
    /\ profitPercentage = <<1, 10>>
    /\ NoCall

InitAnalysis ==
    /\ historicalJSONData = <<>>
    /\ timePeriod = 1
    /\ currentValue = Float(1)
    /\ percentageGoal = <<1, 10>>
    /\ JSONStockData \in SeqsOf(AnalysisDays, EMAFixedPeriod, EMAFixedPeriod + 1)
    /\ addTrainingData \in BOOLEAN
    /\ JSONFutureData = IF addTrainingData THEN <<Day(1, 2, 1, 2, 1)>> ELSE <<>>
    /\ RSItimePeriod \in 1..MaxPeriod
    /\ EMAtimePeriod \in 1..MaxPeriod
    /\ profitPercentage = <<1, 10>>
    /\ NoCall

(***************************************************************************)
(* One action per function: a call with the current inputs.  The functions *)
(* keep no state and write none of their arguments.                        *)
(***************************************************************************)
CallPsScore ==
    /\ pc' = "psScore"
    /\ ret' = psScore(historicalJSONData, currentValue)
    /\ UNCHANGED inputs

CallTrainingDecision ==
    /\ pc' = "trainingDecision"
    /\ ret' = trainingDecision(historicalJSONData, currentValue, percentageGoal)
    /\ UNCHANGED inputs

CallRelativeStrengthIndex ==
    /\ pc' = "relativeStrengthIndex"
    /\ ret' = relativeStrengthIndex(historicalJSONData, timePeriod)
    /\ UNCHANGED inputs

CallOnBalanceVolume ==
    /\ pc' = "onBalanceVolume"
    /\ ret' = onBalanceVolume(historicalJSONData)
    /\ UNCHANGED inputs

CallExponentialMovingAverage ==
    /\ pc' = "exponentialMovingAverage"
    /\ ret' = exponentialMovingAverage(historicalJSONData, timePeriod)
    /\ UNCHANGED inputs

CallHistoricalAnalysisJSON ==
    /\ pc' = "historicalAnalysisJSON"
    /\ ret' = historicalAnalysisJSON(JSONStockData, JSONFutureData, RSItimePeriod,
                                     EMAtimePeriod, addTrainingData,
                                     profitPercentage)
    /\ UNCHANGED inputs

Init == InitSeries
Next == CallRelativeStrengthIndex \/ CallExponentialMovingAverage
Spec == Init /\ [][Next]_vars

NextVolume == CallOnBalanceVolume
SpecVolume == InitVolume /\ [][NextVolume]_vars

NextRange == CallPsScore \/ CallTrainingDecision
SpecRange == InitRange /\ [][NextRange]_vars

NextAnalysis == CallHistoricalAnalysisJSON
SpecAnalysis == InitAnalysis /\ [][NextAnalysis]_vars

(***************************************************************************)
(* What the claims speak of, stated from the claims and not from the code: *)
(* the true extremes of a window, sums, and the Wilder recurrence.         *)
(***************************************************************************)
Highs(data) == {data[i].High : i \in 1..Len(data)}
Lows(data) == {data[i].Low : i \in 1..Len(data)}
MaxHigh(data) == CHOOSE h \in Highs(data) : \A x \in Highs(data) : x <= h
MinLow(data) == CHOOSE l \in Lows(data) : \A x \in Lows(data) : l <= x
Prefix(data, k) == SubSeq(data, 1, k)
Called(f) == pc = f

\* cumulative signed volume over days 2..k of the series
RECURSIVE CumulativeVolume(_, _)
CumulativeVolume(data, k) ==
    IF k <= 1 THEN 0
    ELSE CumulativeVolume(data, k - 1) +
         (IF data[k].Close > data[k - 1].Close THEN data[k].Volume
          ELSE IF data[k].Close < data[k - 1].Close THEN -data[k].Volume
          ELSE 0)

RECURSIVE SumCloses(_, _)
SumCloses(data, k) == IF k = 0 THEN 0 ELSE SumCloses(data, k - 1) + data[k].Close

\* sum over the first k days of the gains (open - close >= 0) or of the
\* magnitudes of the losses (open - close < 0)
RECURSIVE SumChanges(_, _, _)
SumChanges(data, k, gains) ==
    IF k = 0 THEN 0
    ELSE LET c == data[k].Open - data[k].Close
         IN  SumChanges(data, k - 1, gains) +
             (IF gains THEN (IF c >= 0 THEN c ELSE 0) ELSE (IF c < 0 THEN -c ELSE 0))

\* <<averageGain, averageLoss>> of the Wilder recurrence after day k >= p
RECURSIVE Wilder(_, _, _)
Wilder(data, p, k) ==
    IF k = p
    THEN <<Norm(SumChanges(data, p, TRUE), p), Norm(SumChanges(data, p, FALSE), p)>>
    ELSE LET prev == Wilder(data, p, k - 1)
             c == data[k].Open - data[k].Close
         IN  IF c < 0
             THEN <<Norm(prev[1][1] * (p - 1), prev[1][2] * p),
                    Norm(prev[2][1] * (p - 1) + (-c) * prev[2][2], prev[2][2] * p)>>
             ELSE <<Norm(prev[1][1] * (p - 1) + c * prev[1][2], prev[1][2] * p),
                    Norm(prev[2][1] * (p - 1), prev[2][2] * p)>>

NoLossDay(data) == \A i \in 1..Len(data) : data[i].Open - data[i].Close >= 0

\* C1: for a series of length >= 2 onBalanceVolume returns the cumulative
\* total of the signed daily volumes of days 1..n-1, not only the last one.
C1_OBVIsCumulative ==
    (Called("onBalanceVolume") /\ Len(historicalJSONData) >= 2)
        => ret = Return(CumulativeVolume(historicalJSONData, Len(historicalJSONData)))

\* C2: on a flat window (max High = min Low) psScore reports a
\* DegenerateRangeError and nothing else.
C2_FlatWindowIsDegenerateRangeError ==
    (Called("psScore") /\ MaxHigh(historicalJSONData) = MinLow(historicalJSONData))
        => ret = Raise("DegenerateRangeError")

\* C3: for a series longer than the period, whenever the average loss is 0
\* after the seed phase or after a smoothing step, relativeStrengthIndex
\* returns exactly 100 and does not raise.
C3_ZeroLossIsHundred ==
    (/\ Called("relativeStrengthIndex")
     /\ Len(historicalJSONData) > timePeriod
     /\ \E k \in timePeriod..Len(historicalJSONData) :
            IsZero(Wilder(historicalJSONData, timePeriod, k)[2]))
        => ret = Return(Float(100))

\* C4: relativeStrengthIndex and exponentialMovingAverage end in an
\* InsufficientHistoryError, and in nothing else, when the series is shorter
\* than the period.
C4_ShortSeriesIsInsufficientHistoryError ==
    (/\ Called("relativeStrengthIndex") \/ Called("exponentialMovingAverage")
     /\ Len(historicalJSONData) < timePeriod)
        => ret = Raise("InsufficientHistoryError")

\* C5: on a window with max High > min Low psScore returns
\* (2*currentValue - max High - min Low) / (max High - min Low), whatever the
\* magnitude of the prices, and the value lies in [-1, 1] for a current
\* price inside the window's range.
C5_PsScoreUsesWindowExtremes ==
    (Called("psScore") /\ MaxHigh(historicalJSONData) > MinLow(historicalJSONData))
        => LET hi == MaxHigh(historicalJSONData)
               lo == MinLow(historicalJSONData)
               expected == Norm(2 * currentValue[1] - (hi + lo) * currentValue[2],
                                (hi - lo) * currentValue[2])
           IN  /\ ret = Return(expected)
               /\ (RLe(Float(lo), currentValue) /\ RLe(currentValue, Float(hi)))
                      => (RLe(Float(-1), ret.value) /\ RLe(ret.value, Float(1)))

\* C6: for a series longer than the period relativeStrengthIndex returns a
\* value in [0, 100], and it is 100 exactly when no day has open - close < 0.
C6_RSIRange ==
    (Called("relativeStrengthIndex") /\ Len(historicalJSONData) > timePeriod)
        => /\ ret.kind = "return"
           /\ RLe(Float(0), ret.value)
           /\ RLe(ret.value, Float(100))
           /\ (ret.value = Float(100)) <=> NoLossDay(historicalJSONData)

\* C7: for len(series) >= period >= 1 exponentialMovingAverage returns
\* len - period + 1 points, the first the simple average of the first
\* `period` closes, each later one (close - previous) * 2/(period+1) +
\* previous; a second call on the same input returns the same sequence, and
\* the call leaves its inputs unchanged.
EMAResult ==
    LET n == Len(historicalJSONData)
        p == timePeriod
    IN  /\ ret.kind = "return"
        /\ Len(ret.value) = n - p + 1
        /\ ret.value[1] = Norm(SumCloses(historicalJSONData, p), p)
        /\ \A k \in 1..(n - p) :
               LET prev == ret.value[k]
                   close == historicalJSONData[p + k].Close
               IN  ret.value[k + 1] =
                       Norm(2 * (close * prev[2] - prev[1]) + (p + 1) * prev[1],
                            (p + 1) * prev[2])

C7_EMASequence ==
    [][(pc' = "exponentialMovingAverage" /\ Len(historicalJSONData) >= timePeriod)
          => /\ EMAResult'
             /\ inputs' = inputs
             /\ (pc = "exponentialMovingAverage" => ret' = ret)]_vars

C7_Witness ==
    /\ Called("exponentialMovingAverage")
    /\ ret.kind = "return"
    /\ Len(ret.value) >= 3
    /\ ret.value[1] # ret.value[2]
    /\ ret.value[2] # ret.value[3]
    /\ ret.value[1][2] > 1

\* C8: trainingDecision computes futureGain = max High - currentValue and
\* futureLoss = currentValue - min Low over the window; long (ties too) it
\* returns (futureGain/currentValue, futureGain/currentValue > threshold),
\* short (-(futureLoss/currentValue), futureLoss/currentValue > threshold).
C8_TrainingDecisionUsesWindowExtremes ==
    Called("trainingDecision")
        => LET cv == currentValue
               futureGain == RSub(Float(MaxHigh(historicalJSONData)), cv)
               futureLoss == RSub(cv, Float(MinLow(historicalJSONData)))
               long == RDiv(futureGain, cv)
               short == RDiv(futureLoss, cv)
           IN  IF RLe(futureLoss, futureGain)
               THEN ret = Return(<<long, RLt(percentageGoal, long)>>)
               ELSE ret = Return(<<RNeg(short), RLt(percentageGoal, short)>>)

\* C9: in the result of historicalAnalysisJSON the RSI field is
\* relativeStrengthIndex with RSItimePeriod and the EMA field is
\* exponentialMovingAverage with EMAtimePeriod.
C9_PeriodsGovernTheirIndicators ==
    (Called("historicalAnalysisJSON") /\ ret.kind = "return")
        => LET data == Reversed(JSONStockData)
           IN  /\ ret.value.RSI = relativeStrengthIndex(data, RSItimePeriod).value
               /\ ret.value.EMA = exponentialMovingAverage(data, EMAtimePeriod).value

\* C10: relativeStrengthIndex follows the Wilder recurrence on
\* change = open - close: the seed averages are the sums of the gains and of
\* the loss magnitudes of the first `period` days over period, each later day
\* smooths its own side and decays the other by (period-1)/period; both
\* averages are >= 0 after every step, and a returned value is
\* 100 - 100/(1 + averageGain/averageLoss) of the final averages.
C10_WilderRecurrence ==
    (Called("relativeStrengthIndex") /\ Len(historicalJSONData) >= timePeriod)
        => /\ \A k \in timePeriod..Len(historicalJSONData) :
                  LET w == Wilder(historicalJSONData, timePeriod, k)
                  IN  /\ RSIAverages(Prefix(historicalJSONData, k), timePeriod)
                             = Return(w)
                      /\ w[1][1] >= 0
                      /\ w[2][1] >= 0
           /\ LET w == Wilder(historicalJSONData, timePeriod, Len(historicalJSONData))
                  g == w[1]
                  l == w[2]
              IN  l[1] # 0 => ret = Return(Norm(100 * g[1] * l[2],
                                                l[1] * g[2] + g[1] * l[2]))

C10_Witness ==
    /\ Called("relativeStrengthIndex")
    /\ Len(historicalJSONData) >= timePeriod + 2
    /\ timePeriod >= 2
    /\ ret.kind = "return"
    /\ \E i, j \in (timePeriod + 1)..Len(historicalJSONData) :
           /\ historicalJSONData[i].Open < historicalJSONData[i].Close
           /\ historicalJSONData[j].Open > historicalJSONData[j].Close

====
